---- MODULE Spec2Model ----
(***************************************************************************)
(* Model of src/main.py (nikitacunskis/file_renamer): DirectoryReader      *)
(* scans a folder for "*_<digits>.mp4" files, detects duplicate and        *)
(* missing ordinals, builds the list of (file_info, old, new) renames and, *)
(* after a confirmation prompt, renames the files one by one.              *)
(*                                                                         *)
(* Python strings are modelled as sequences of one-character strings, so   *)
(* that re.search, int(), str(), zfill() and str.format() are computed     *)
(* rather than assumed.                                                    *)
(***************************************************************************)
EXTENDS Integers, Sequences, FiniteSets, TLC

VARIABLES
    dir,                \* the folder: set of entries [name, probe, isfile, orig]
    listing,            \* what os.listdir returned at the scan, in its order
    files_info,         \* list_files() result after the sort of line 96
    duplicates,         \* set of ints (line 99)
    all_numbers,        \* sorted distinct ints (line 113), shifted at line 118
    missing_numbers,    \* line 120
    new_filenames_info, \* the returned plan (line 141)
    preview,            \* the "old -> new" lines printed at lines 147-149
    prompts,            \* the input() prompts issued so far, in order
    shift_input,        \* the answer given at line 115 (<<>> when not asked)
    user_response,      \* the answer given at line 151 (<<>> when not asked)
    idx,                \* position of the loop of line 153 in the plan
    attempts,           \* os.rename calls made so far: [old, new, ok]
    pc                  \* where the run stands

vars == << dir, listing, files_info, duplicates, all_numbers, missing_numbers,
           new_filenames_info, preview, prompts, shift_input, user_response,
           idx, attempts, pc >>

-----------------------------------------------------------------------------
(* Bounds and inputs *)

MaxFiles == 3

large_file_marker == 300

Mp4 == << ".", "m", "p", "4" >>

ScanDate == << "2", "0", "2", "6", "1", "1", "0", "2" >>

filename_template == << "date", "_", "size_marker", "_", "number", "_", "length_seconds" >>

\* Directory entries a run may find.  probe is the duration the media probe
\* returns, -1 when the probe raises; orig identifies the file's content.
Entry(n, p, f) == [name |-> n, probe |-> p, isfile |-> f, orig |-> n]

Universe ==
    { Entry(<< "a", "_", "1" >> \o Mp4, 10, TRUE),
      Entry(<< "b", "_", "0", "1" >> \o Mp4, 10, TRUE),
      Entry(<< "a", "_", "0" >> \o Mp4, 400, TRUE),
      Entry(<< "a", "_", "3" >> \o Mp4, -1, TRUE),
      Entry(<< "a", "_", "1", "0" >> \o Mp4, 400, TRUE),
      Entry(<< "a", "_", "2" >> \o Mp4, 10, TRUE),
      Entry(<< "x" >> \o Mp4, 10, TRUE),
      Entry(<< "d", "_", "5" >> \o Mp4, 10, FALSE),
      Entry(ScanDate \o << "_", "S", "_", "0", "0", "0", "0", "0", "2", "_", "0", "1", "0" >> \o Mp4,
            10, TRUE) }

ShiftAnswers ==
    { << "y", "e", "s" >>, << " ", "Y", "e", "s", " " >>, << "y" >>, << "n", "o" >> }

ConfirmAnswers ==
    { << "y", "e", "s" >>, << "Y" >>, << " ", "y", "e", "s" >>, << "n", "o" >> }

-----------------------------------------------------------------------------
(* Python string and integer primitives *)

IsDigit(c) == c \in { "0", "1", "2", "3", "4", "5", "6", "7", "8", "9" }

DigitVal(c) ==
    CASE c = "0" -> 0 [] c = "1" -> 1 [] c = "2" -> 2 [] c = "3" -> 3
      [] c = "4" -> 4 [] c = "5" -> 5 [] c = "6" -> 6 [] c = "7" -> 7
      [] c = "8" -> 8 [] c = "9" -> 9

DigitChar(d) ==
    CASE d = 0 -> "0" [] d = 1 -> "1" [] d = 2 -> "2" [] d = 3 -> "3"
      [] d = 4 -> "4" [] d = 5 -> "5" [] d = 6 -> "6" [] d = 7 -> "7"
      [] d = 8 -> "8" [] d = 9 -> "9"

\* int(s) for a string of decimal digits
RECURSIVE int(_)
int(s) ==
    IF Len(s) = 0 THEN 0
    ELSE int(SubSeq(s, 1, Len(s) - 1)) * 10 + DigitVal(s[Len(s)])

\* str(n) for n >= 0
RECURSIVE str(_)
str(n) ==
    IF n < 10 THEN << DigitChar(n) >>
    ELSE str(n \div 10) \o << DigitChar(n % 10) >>

\* s.zfill(w)
RECURSIVE zfill(_, _)
zfill(s, w) == IF Len(s) >= w THEN s ELSE zfill(<< "0" >> \o s, w)

LowerChar(c) ==
    CASE c = "Y" -> "y" [] c = "E" -> "e" [] c = "S" -> "s"
      [] c = "N" -> "n" [] c = "O" -> "o" [] OTHER -> c

\* s.lower()
lower(s) == [k \in 1..Len(s) |-> LowerChar(s[k])]

\* s.strip()
RECURSIVE strip(_)
strip(s) ==
    IF Len(s) = 0 THEN s
    ELSE IF s[1] = " " THEN strip(Tail(s))
    ELSE IF s[Len(s)] = " " THEN strip(SubSeq(s, 1, Len(s) - 1))
    ELSE s

endswith(s, suf) ==
    /\ Len(s) >= Len(suf)
    /\ SubSeq(s, Len(s) - Len(suf) + 1, Len(s)) = suf

\* Python values of different types never compare equal: x in S, for a str x
\* and a set S of ints, is False.
PyInt(n) == [t |-> "int", v |-> n]

PyStr(s) == [t |-> "str", v |-> s]

PyEq(a, b) == a.t = b.t /\ a.v = b.v

PyIn(x, S) == \E y \in S : PyEq(x, y)

-----------------------------------------------------------------------------
(* list_files: lines 52-77 *)

RECURSIVE LastUnderscore(_, _)
LastUnderscore(s, k) ==
    IF k = 0 THEN 0
    ELSE IF s[k] = "_" THEN k
    ELSE LastUnderscore(s, k - 1)

\* re.search(r'_([0-9]+)\.mp4$', filename).group(1); <<>> when there is no match
number_match(filename) ==
    IF ~endswith(filename, Mp4) THEN << >>
    ELSE LET body == SubSeq(filename, 1, Len(filename) - Len(Mp4))
             u    == LastUnderscore(body, Len(body))
             ds   == SubSeq(body, u + 1, Len(body))
         IN  IF u > 0 /\ Len(ds) > 0 /\ \A k \in 1..Len(ds) : IsDigit(ds[k])
             THEN ds
             ELSE << >>

\* read_video_length: the rounded duration, 0 when the probe raises
read_video_length(e) == IF e.probe < 0 THEN 0 ELSE e.probe

FileInfo(e) ==
    LET length_seconds == read_video_length(e)
    IN  [ filename       |-> e.name,
          number         |-> number_match(e.name),
          length_seconds |-> length_seconds,
          date           |-> ScanDate,
          size_marker    |-> IF length_seconds > large_file_marker THEN "L" ELSE "S" ]

Matches(e) ==
    /\ endswith(e.name, Mp4)
    /\ e.isfile
    /\ number_match(e.name) # << >>

RECURSIVE list_files(_)
list_files(entries) ==
    IF entries = << >> THEN << >>
    ELSE (IF Matches(Head(entries)) THEN << FileInfo(Head(entries)) >> ELSE << >>)
         \o list_files(Tail(entries))

-----------------------------------------------------------------------------
(* generate_new_filenames: lines 93-141 *)

\* The key of the sort of line 96
SortKey(fi) == int(fi.number)

\* Digit strings compared as strings: a <= b in lexicographic order
RECURSIVE LexLE(_, _)
LexLE(a, b) ==
    IF a = << >> THEN TRUE
    ELSE IF b = << >> THEN FALSE
    ELSE IF Head(a) # Head(b) THEN DigitVal(Head(a)) < DigitVal(Head(b))
    ELSE LexLE(Tail(a), Tail(b))

\* Variant of InsertSorted: the sort key is the digit string, not its value
RECURSIVE InsertSortedLex(_, _)
InsertSortedLex(sorted, x) ==
    IF sorted = << >> THEN << x >>
    ELSE IF LexLE(Head(sorted).number, x.number)
         THEN << Head(sorted) >> \o InsertSortedLex(Tail(sorted), x)
         ELSE << x >> \o sorted

\* Position of x in an already sorted list: after every element whose key is
\* not greater (list.sort is stable).
RECURSIVE InsertSorted(_, _)
InsertSorted(sorted, x) ==
    IF sorted = << >> THEN << x >>
    ELSE IF SortKey(Head(sorted)) <= SortKey(x)
         THEN << Head(sorted) >> \o InsertSorted(Tail(sorted), x)
         ELSE << x >> \o sorted

RECURSIVE SortFiles(_)
SortFiles(fs) ==
    IF fs = << >> THEN << >>
    ELSE InsertSorted(SortFiles(SubSeq(fs, 1, Len(fs) - 1)), fs[Len(fs)])

\* The loop of lines 102-111: the keys of numbers_seen, duplicates, all_numbers
RECURSIVE ScanNumbers(_, _)
ScanNumbers(fs, acc) ==
    IF fs = << >> THEN acc
    ELSE LET number == int(Head(fs).number)
         IN  ScanNumbers(Tail(fs),
                 [ numbers_seen |-> acc.numbers_seen \cup { number },
                   duplicates   |-> IF number \in acc.numbers_seen
                                    THEN acc.duplicates \cup { number }
                                    ELSE acc.duplicates,
                   all_numbers  |-> Append(acc.all_numbers, number) ])

EmptyScan == [ numbers_seen |-> {}, duplicates |-> {}, all_numbers |-> << >> ]

Min(S) == CHOOSE m \in S : \A x \in S : m <= x

\* sorted(list(set(xs))): line 113
RECURSIVE SortedOfSet(_)
SortedOfSet(S) ==
    IF S = {} THEN << >>
    ELSE << Min(S) >> \o SortedOfSet(S \ { Min(S) })

SortedDistinct(xs) == SortedOfSet({ xs[k] : k \in 1..Len(xs) })

\* [x for x in range(lo, hi + 1) if x not in nums]: line 120
RECURSIVE MissingIn(_, _, _)
MissingIn(lo, hi, nums) ==
    IF lo > hi THEN << >>
    ELSE (IF \E k \in 1..Len(nums) : nums[k] = lo THEN << >> ELSE << lo >>)
         \o MissingIn(lo + 1, hi, nums)

\* Variant of MissingNumbers: the range starts at 0, not at the smallest number
MissingNumbersFromZero(nums) == MissingIn(0, nums[Len(nums)], nums)

MissingNumbers(nums) == MissingIn(nums[1], nums[Len(nums)], nums)

\* The test of line 129: file_info['number'] is a str, duplicates holds ints
NotInDuplicates(fi, dups) == ~PyIn(PyStr(fi.number), { PyInt(d) : d \in dups })

\* Variant of AdjustedNumber: one is added whatever the smallest number
AdjustedNumberAlwaysPlusOne(fi, nums) == int(fi.number) + 1

\* Line 130
AdjustedNumber(fi, nums) ==
    IF nums[1] = 1 THEN int(fi.number) + 1 ELSE int(fi.number)

FieldValue(tok, fi, nums) ==
    CASE tok = "date"           -> fi.date
      [] tok = "size_marker"    -> << fi.size_marker >>
      [] tok = "number"         -> zfill(str(AdjustedNumber(fi, nums)), 6)
      [] tok = "length_seconds" -> zfill(str(fi.length_seconds), 3)
      [] OTHER                  -> << tok >>

\* filename_template.format(...): lines 131-136
RECURSIVE Format(_, _, _)
Format(template, fi, nums) ==
    IF template = << >> THEN << >>
    ELSE FieldValue(Head(template), fi, nums) \o Format(Tail(template), fi, nums)

NewFilename(fi, nums) == Format(filename_template, fi, nums) \o Mp4

\* The loop of lines 128-138
RECURSIVE BuildPlan(_, _, _)
BuildPlan(fs, dups, nums) ==
    IF fs = << >> THEN << >>
    ELSE (IF NotInDuplicates(Head(fs), dups)
          THEN << [ file_info    |-> Head(fs),
                    old_filename |-> Head(fs).filename,
                    new_filename |-> NewFilename(Head(fs), nums) ] >>
          ELSE << >>)
         \o BuildPlan(Tail(fs), dups, nums)

\* Lines 147-149
Preview(plan) == [k \in 1..Len(plan) |-> << plan[k].old_filename, plan[k].new_filename >>]

\* Variant of ShiftAccepted: 'y' is taken for 'yes', as at line 152
ShiftAcceptedLoose(ans) == lower(strip(ans)) \in { << "y", "e", "s" >>, << "y" >> }

\* Line 117
ShiftAccepted(ans) == lower(strip(ans)) = << "y", "e", "s" >>

\* Variant of Confirmed: the answer is stripped first, as at line 117
ConfirmedStripped(ans) == lower(strip(ans)) \in { << "y", "e", "s" >>, << "y" >> }

\* Line 152
Confirmed(ans) == lower(ans) \in { << "y", "e", "s" >>, << "y" >> }

-----------------------------------------------------------------------------
(* os.rename *)

Names(d) == { e.name : e \in d }

\* The rename can succeed: the source exists and the target is not a directory
CanRename(d, old, new) ==
    /\ old \in Names(d)
    /\ \A e \in d : e.name = new /\ new # old => e.isfile

\* A successful rename: an existing target file is replaced
os_rename(d, old, new) ==
    LET src == CHOOSE e \in d : e.name = old
    IN  { e \in d : e.name # old /\ e.name # new } \cup { [src EXCEPT !.name = new] }

-----------------------------------------------------------------------------
(* The run: rename_files, lines 143-168 *)

Listings ==
    { s \in UNION { [1..n -> Universe] : n \in 0..MaxFiles } :
        \A j, k \in 1..Len(s) : j # k => s[j] # s[k] }

Init ==
    /\ listing \in Listings
    /\ dir = { listing[k] : k \in 1..Len(listing) }
    /\ files_info = << >>
    /\ duplicates = {}
    /\ all_numbers = << >>
    /\ missing_numbers = << >>
    /\ new_filenames_info = << >>
    /\ preview = << >>
    /\ prompts = << >>
    /\ shift_input = << >>
    /\ user_response = << >>
    /\ idx = 0
    /\ attempts = << >>
    /\ pc = "start"

\* Lines 120-149 and the prompt of line 151; all_numbers[0] on an empty list
\* raises IndexError, which nothing catches.
FinishPlan(fs, dups, nums, asked) ==
    /\ files_info' = fs
    /\ duplicates' = dups
    /\ all_numbers' = nums
    /\ IF nums = << >>
       THEN /\ pc' = "crashed"
            /\ prompts' = asked
            /\ UNCHANGED << missing_numbers, new_filenames_info, preview >>
       ELSE /\ missing_numbers' = MissingNumbers(nums)
            /\ new_filenames_info' = BuildPlan(fs, dups, nums)
            /\ preview' = Preview(BuildPlan(fs, dups, nums))
            /\ prompts' = Append(asked, "confirm")
            /\ pc' = "confirm_prompt"

\* Lines 94-114: scan, sort, duplicate detection; stops at the prompt of line
\* 115 when the smallest number is 0, else runs on to line 151.
GenerateNewFilenames(listed) ==
    /\ pc = "start"
    /\ LET fs   == SortFiles(IF listed THEN list_files(listing) ELSE << >>)
           scan == ScanNumbers(fs, EmptyScan)
           nums == SortedDistinct(scan.all_numbers)
       IN  IF nums # << >> /\ nums[1] = 0
           THEN /\ files_info' = fs
                /\ duplicates' = scan.duplicates
                /\ all_numbers' = nums
                /\ prompts' = << "shift" >>
                /\ pc' = "shift_prompt"
                /\ UNCHANGED << missing_numbers, new_filenames_info, preview >>
           ELSE FinishPlan(fs, scan.duplicates, nums, << >>)
    /\ UNCHANGED << dir, listing, shift_input, user_response, idx, attempts >>

\* Lines 115-119, then on to line 151
AnswerShift(ans) ==
    /\ pc = "shift_prompt"
    /\ shift_input' = ans
    /\ FinishPlan(files_info, duplicates,
                  IF ShiftAccepted(ans)
                  THEN [k \in 1..Len(all_numbers) |-> all_numbers[k] + 1]
                  ELSE all_numbers,
                  prompts)
    /\ UNCHANGED << dir, listing, user_response, idx, attempts >>

\* Lines 151-152 and 167-168
AnswerConfirm(ans) ==
    /\ pc = "confirm_prompt"
    /\ user_response' = ans
    /\ IF Confirmed(ans)
       THEN /\ idx' = 1
            /\ pc' = IF Len(new_filenames_info) = 0 THEN "done" ELSE "rename"
       ELSE /\ pc' = "done"
            /\ UNCHANGED idx
    /\ UNCHANGED << dir, listing, files_info, duplicates, all_numbers, missing_numbers,
                    new_filenames_info, preview, prompts, shift_input, attempts >>

NextEntry ==
    /\ idx' = idx + 1
    /\ pc' = IF idx + 1 > Len(new_filenames_info) THEN "done" ELSE "rename"

\* Lines 153-161: os.rename returns
RenameSucceeds ==
    /\ pc = "rename"
    /\ LET e == new_filenames_info[idx]
       IN  /\ CanRename(dir, e.old_filename, e.new_filename)
           /\ dir' = os_rename(dir, e.old_filename, e.new_filename)
           /\ attempts' = Append(attempts,
                  [ old |-> e.old_filename, new |-> e.new_filename, ok |-> TRUE ])
    /\ NextEntry
    /\ UNCHANGED << listing, files_info, duplicates, all_numbers, missing_numbers,
                    new_filenames_info, preview, prompts, shift_input, user_response >>

\* Variant of RenameFails: the exception is not caught inside the loop and ends it
RenameFailsAborts ==
    /\ pc = "rename"
    /\ LET e == new_filenames_info[idx]
       IN  attempts' = Append(attempts,
               [ old |-> e.old_filename, new |-> e.new_filename, ok |-> FALSE ])
    /\ idx' = idx + 1
    /\ pc' = "done"
    /\ UNCHANGED << dir, listing, files_info, duplicates, all_numbers, missing_numbers,
                    new_filenames_info, preview, prompts, shift_input, user_response >>

\* Lines 153-158 and 162-165: os.rename raises (source missing, target exists
\* where the platform refuses to replace, permission denied) and is caught
RenameFails ==
    /\ pc = "rename"
    /\ LET e == new_filenames_info[idx]
       IN  attempts' = Append(attempts,
               [ old |-> e.old_filename, new |-> e.new_filename, ok |-> FALSE ])
    /\ NextEntry
    /\ UNCHANGED << dir, listing, files_info, duplicates, all_numbers, missing_numbers,
                    new_filenames_info, preview, prompts, shift_input, user_response >>

Next ==
    \/ \E listed \in BOOLEAN : GenerateNewFilenames(listed)
    \/ \E ans \in ShiftAnswers : AnswerShift(ans)
    \/ \E ans \in ConfirmAnswers : AnswerConfirm(ans)
    \/ RenameSucceeds
    \/ RenameFails

Spec == Init /\ [][Next]_vars

\* The loop of line 153 is sequential code: each os.rename call returns or
\* raises, and the loop goes on to the next entry.
FairSpec == Spec /\ WF_vars(RenameSucceeds \/ RenameFails)

-----------------------------------------------------------------------------
(* Vocabulary of the properties *)

\* generate_new_filenames has just returned its plan and the preview is
\* printed; no later step writes files_info, missing_numbers or the plan.
Planned == pc = "confirm_prompt"

Ordinal(fi) == int(fi.number)

ScannedOrdinals == { Ordinal(files_info[k]) : k \in 1..Len(files_info) }

\* Number of scanned records carrying ordinal n
Occurrences(n) == Cardinality({ k \in 1..Len(files_info) : Ordinal(files_info[k]) = n })

NonDuplicateCount ==
    Cardinality({ k \in 1..Len(files_info) : Occurrences(Ordinal(files_info[k])) = 1 })

MinOrdinal == Min(ScannedOrdinals)

MaxOrdinal == CHOOSE m \in ScannedOrdinals : \A x \in ScannedOrdinals : x <= m

\* The "_"-separated fields of a string
RECURSIVE Fields(_, _)
Fields(s, cur) ==
    IF s = << >> THEN << cur >>
    ELSE IF Head(s) = "_" THEN << cur >> \o Fields(Tail(s), << >>)
    ELSE Fields(Tail(s), Append(cur, Head(s)))

\* The number read back from a new filename: the third field of
\* <date>_<size>_<number>_<length>.mp4
WrittenNumber(name) ==
    int(Fields(SubSeq(name, 1, Len(name) - Len(Mp4)), << >>)[3])

\* The answers that are "yes" up to case and surrounding blanks
YesAnswers == { << "y", "e", "s" >>, << " ", "Y", "e", "s", " " >> }

\* The shift-by-one prompt was issued and answered yes
ShiftAgreed ==
    /\ \E k \in 1..Len(prompts) : prompts[k] = "shift"
    /\ shift_input \in YesAnswers

\* The answers to the rename confirmation that are 'yes' or 'y' up to case
YesOrY == { << "y", "e", "s" >>, << "Y" >> }

Elems(s) == { s[k] : k \in 1..Len(s) }

StrictlyAscending(s) == \A j, k \in 1..Len(s) : j < k => s[j] < s[k]

-----------------------------------------------------------------------------
(* C1 *)

\* C1 (as claimed): the plan holds no entry whose original ordinal is carried
\* by two or more scanned records, and when exactly one ordinal occurs twice
\* the plan has total_records - 2 entries.
C1_DuplicatesExcluded ==
    Planned =>
        /\ \A k \in 1..Len(new_filenames_info) :
               Occurrences(Ordinal(new_filenames_info[k].file_info)) = 1
        /\ Len(new_filenames_info) = NonDuplicateCount

-----------------------------------------------------------------------------
(* C2 *)

\* The i-th plan entry carries new ordinal i
DenseFromOne ==
    \A k \in 1..Len(new_filenames_info) :
        WrittenNumber(new_filenames_info[k].new_filename) = k

C2_WitnessGap ==
    /\ Planned
    /\ Len(new_filenames_info) >= 2
    /\ ~DenseFromOne
    /\ Ordinal(new_filenames_info[2].file_info)
           > Ordinal(new_filenames_info[1].file_info) + 1

-----------------------------------------------------------------------------
(* C3 *)

\* C3 (as claimed): a plan that reaches the rename loop has pairwise distinct
\* new filenames.
C3_DistinctTargets ==
    pc = "rename" =>
        \A j, k \in 1..Len(new_filenames_info) :
            j # k => new_filenames_info[j].new_filename # new_filenames_info[k].new_filename

-----------------------------------------------------------------------------
(* C4 *)

\* C4 (as claimed): a scan without matching files ends normally with an empty
\* plan: no error, no prompt, no rename.
C4_EmptyScanEndsNormally ==
    (pc # "start" /\ files_info = << >>) =>
        /\ pc # "crashed"
        /\ new_filenames_info = << >>
        /\ prompts = << >>
        /\ attempts = << >>

-----------------------------------------------------------------------------
(* C5 *)

\* C5 (as claimed): the missing report is the ascending sequence of the
\* integers of [min, max] absent from the scanned ordinals.
C5_MissingOfScanned ==
    Planned =>
        /\ StrictlyAscending(missing_numbers)
        /\ Elems(missing_numbers) = (MinOrdinal..MaxOrdinal) \ ScannedOrdinals

ShiftBy == IF ShiftAgreed THEN 1 ELSE 0

\* C5 (amended): the missing report is the ascending sequence of the integers
\* absent between the smallest and the largest ordinal, expressed in the
\* numbering after the optional shift: each is one more than the absent
\* original ordinal when the shift-by-one prompt was answered yes.  It is
\* empty when the ordinals have no gap or there is one distinct ordinal.
C5_MissingOfShifted ==
    Planned =>
        /\ StrictlyAscending(missing_numbers)
        /\ Elems(missing_numbers)
               = { x + ShiftBy : x \in (MinOrdinal..MaxOrdinal) \ ScannedOrdinals }
        /\ Cardinality(ScannedOrdinals) = MaxOrdinal - MinOrdinal + 1
               => missing_numbers = << >>

\* A shifted report: ordinals from 0 with a gap, shift agreed
C5_Witness ==
    /\ Planned
    /\ ShiftAgreed
    /\ missing_numbers # << >>
    /\ Occurrences(MinOrdinal) >= 1
    /\ Len(files_info) >= 2

-----------------------------------------------------------------------------
(* C6 *)

PlanPairs == [k \in 1..Len(new_filenames_info) |->
                 << new_filenames_info[k].old_filename, new_filenames_info[k].new_filename >>]

AttemptPairs == [k \in 1..Len(attempts) |-> << attempts[k].old, attempts[k].new >>]

\* Once the user has confirmed, the renames attempted are the plan entries,
\* once each and in plan order, whatever the outcome of each attempt: inside
\* the loop the attempts made are the entries before the current one, and at
\* the end of a confirmed run every entry has been attempted.
AttemptsFollowPlan ==
    /\ pc = "rename" =>
           /\ idx \in 1..Len(new_filenames_info)
           /\ AttemptPairs = SubSeq(PlanPairs, 1, idx - 1)
    /\ (pc = "done" /\ user_response \in YesOrY) => AttemptPairs = PlanPairs

\* C6: after the confirmation every plan entry is attempted exactly once, in
\* plan order, a failed attempt being followed by the attempt on the next
\* entry, and a rename loop that has started reaches its end.
C6_WholePlanAttempted ==
    /\ []AttemptsFollowPlan
    /\ (pc = "rename") ~> (pc = "done")

\* A failed rename followed by a later attempt that succeeded
C6_Witness ==
    /\ pc = "done"
    /\ Len(attempts) >= 2
    /\ ~attempts[1].ok
    /\ attempts[2].ok

-----------------------------------------------------------------------------
(* C7 *)

ScannedDir == { listing[k] : k \in 1..Len(listing) }

\* C7: up to and including the confirmation prompt nothing is renamed; an
\* answer other than 'yes' or 'y' (case-insensitive) ends the run with no
\* rename attempted and the folder unchanged; an answer of 'yes' or 'y' starts
\* the loop, and every step of the loop attempts one further entry and ends
\* the run only when all entries have been attempted.
C7_OnlyTheGateStops ==
    /\ [](/\ pc \in { "start", "shift_prompt", "confirm_prompt" } =>
                 (attempts = << >> /\ dir = ScannedDir)
          /\ (pc = "done" /\ user_response \notin YesOrY) =>
                 (attempts = << >> /\ Names(dir) = Names(ScannedDir)))
    /\ [][/\ (pc = "confirm_prompt" /\ user_response' \notin YesOrY) =>
                 (pc' = "done" /\ dir' = dir /\ attempts' = << >>)
          /\ (pc = "confirm_prompt" /\ user_response' \in YesOrY) =>
                 (pc' = "rename" /\ idx' = 1 /\ new_filenames_info' # << >>)
          /\ pc = "rename" =>
                 /\ pc' \in { "rename", "done" }
                 /\ Len(attempts') = Len(attempts) + 1
                 /\ pc' = "done" <=> Len(attempts') = Len(new_filenames_info)
          /\ pc = "done" => FALSE]_vars

\* A run declined by an answer that is almost, but not, 'yes'
C7_Witness ==
    /\ pc = "done"
    /\ user_response = << " ", "y", "e", "s" >>
    /\ new_filenames_info # << >>
    /\ attempts = << >>

-----------------------------------------------------------------------------
(* C8 *)

\* C8: the plan is in ascending order of original ordinal compared as
\* integers; each entry's old_filename is the filename of its record; every
\* scanned record with an ordinal of its own has exactly one entry and no
\* record has two; the preview lists the entries in plan order and the renames
\* are attempted in the order of the preview.
C8_PlanInAscendingIntegerOrder ==
    /\ Planned =>
           /\ \A j, k \in 1..Len(new_filenames_info) :
                  j < k => Ordinal(new_filenames_info[j].file_info)
                               <= Ordinal(new_filenames_info[k].file_info)
           /\ \A k \in 1..Len(new_filenames_info) :
                  /\ new_filenames_info[k].old_filename
                         = new_filenames_info[k].file_info.filename
                  /\ new_filenames_info[k].file_info \in Elems(files_info)
           /\ \A r \in 1..Len(files_info) :
                  LET n == Cardinality({ k \in 1..Len(new_filenames_info) :
                               new_filenames_info[k].file_info = files_info[r] })
                  IN  /\ n <= 1
                      /\ Occurrences(Ordinal(files_info[r])) = 1 => n = 1
           /\ preview = PlanPairs
    /\ pc \in { "rename", "done" } =>
           \A k \in 1..Len(attempts) :
               /\ attempts[k].old = preview[k][1]
               /\ attempts[k].new = preview[k][2]

\* Ordinals 2 and 10: as digit strings "10" sorts before "2"
C8_Witness ==
    /\ Planned
    /\ Len(new_filenames_info) >= 2
    /\ new_filenames_info[1].file_info.number = << "2" >>
    /\ new_filenames_info[2].file_info.number = << "1", "0" >>

-----------------------------------------------------------------------------
(* C9 *)

\* C9 (as claimed): no rename replaces a file: the folder always holds the
\* files it held at the scan, under whatever names.
C9_NoFileDestroyed ==
    /\ Cardinality(dir) = Len(listing)
    /\ { e.orig : e \in dir } = { e.orig : e \in ScannedDir }

-----------------------------------------------------------------------------
(* C10 *)

ShiftPrompted == \E k \in 1..Len(prompts) : prompts[k] = "shift"

\* C10: the number written into each new filename is the entry's original
\* ordinal plus one offset common to the plan, which is 1 exactly when the
\* smallest ordinal is 1, or is 0 and the shift prompt was answered yes, and 0
\* otherwise; the shift prompt is issued only when the smallest ordinal is 0.
C10_CommonOffset ==
    /\ (pc \in { "shift_prompt", "confirm_prompt" } /\ ShiftPrompted) => MinOrdinal = 0
    /\ Planned =>
           LET c == IF MinOrdinal = 1 \/ (MinOrdinal = 0 /\ ShiftAgreed) THEN 1 ELSE 0
           IN  \A k \in 1..Len(new_filenames_info) :
                   WrittenNumber(new_filenames_info[k].new_filename)
                       = Ordinal(new_filenames_info[k].file_info) + c

\* Smallest ordinal 1 and a gap: offset 1, gap kept
C10_Witness ==
    /\ Planned
    /\ MinOrdinal = 1
    /\ Len(new_filenames_info) >= 2
    /\ WrittenNumber(new_filenames_info[1].new_filename) = 2
    /\ WrittenNumber(new_filenames_info[Len(new_filenames_info)].new_filename)
           = MaxOrdinal + 1
    /\ MaxOrdinal >= 3

====
